---- MODULE Spec2Model ----
(***************************************************************************)
(* Model of the acoustic-diagnosis search engine (search.py) and of its    *)
(* two entry points (app.main and the interactive loop of search.py).      *)
(*                                                                         *)
(* Texts are sequences of one-character strings.  A TF-IDF vector is kept  *)
(* exactly: a row is the integer direction w (term -> tf * idf) together   *)
(* with its squared length n2; the unit vector that scikit-learn stores is *)
(* w / sqrt(n2).  A score is the squared cosine as a reduced fraction.     *)
(* All vectors are non-negative, so order, zero-ness and equality to 1 of  *)
(* the squared cosine are those of the cosine itself.                      *)
(***************************************************************************)
EXTENDS Integers, Sequences, FiniteSets, TLC

VARIABLES entry, pc, tieOrder, file, docs, vectorizer, tfidf_matrix, error,
          nBuilds, query, top_k, results, searched, repeated,
          summary, analysis, budget, report

vars == <<entry, pc, tieOrder, file, docs, vectorizer, tfidf_matrix, error,
          nBuilds, query, top_k, results, searched, repeated,
          summary, analysis, budget, report>>

index == <<docs, vectorizer, tfidf_matrix>>

(***************************************************************************)
(* Bounds of the model.                                                    *)
(***************************************************************************)
MaxDocs == 2
MaxTopK == 2

(***************************************************************************)
(* Program constants.                                                      *)
(***************************************************************************)
TOP_K == 5
TEXT_FIELD == "faiblesses"
ID_FIELD == "id"

(***************************************************************************)
(* Input alphabets: the text fields a corpus may hold, the queries, the    *)
(* budget lines typed by the user and the sensor logs.                     *)
(***************************************************************************)
DocTexts ==
  << <<"m", "u">>,
     <<"M", "u", " ", "a">>,
     <<"m", "u", " ", "b", "r">>,
     <<"b", "r", ",", "b", "r", " ", "m", "u">>,
     <<>> >>

QueryTexts ==
  { DocTexts[i] : i \in 1..Len(DocTexts) } \cup { <<"z", "z">> }

CliInputs == { <<>>, <<" ">>, <<" ", "m", "u", " ">>, <<"m", "u", " ", "b", "r">>, <<"z", "z">> }

AnalysisTexts == { <<>>, <<"m", "u", " ", "b", "r">>, <<"z", "z">> }

BudgetInputs ==
  { <<"a", "b", "c">>, <<>>, <<"1", ".", "5", ".">>, <<" ", "9", ".", "5">> }

Releves ==
  { <<>>,
    << [LAeq_segment_dB |-> 40, LAeq_rating |-> "B"],
       [LAeq_segment_dB |-> 72, LAeq_rating |-> "E"],
       [LAeq_rating |-> "D"] >> }

(***************************************************************************)
(* Small helpers.                                                          *)
(***************************************************************************)
Min(a, b) == IF a < b THEN a ELSE b

Range(s) == { s[i] : i \in 1..Len(s) }

Perms(n) == { p \in [1..n -> 1..n] : \A a, b \in 1..n : a # b => p[a] # p[b] }

RECURSIVE GCD(_, _)
GCD(a, b) == IF b = 0 THEN a ELSE GCD(b, a % b)

RECURSIVE SumOver(_, _)
SumOver(S, f) ==
  IF S = {} THEN 0
  ELSE LET x == CHOOSE y \in S : TRUE IN f[x] + SumOver(S \ {x}, f)

(***************************************************************************)
(* TfidfVectorizer with its default settings (search.py:24): lowercase,    *)
(* tokens are the maximal runs of two or more word characters, raw term    *)
(* counts, smoothed idf = ln((1 + n) / (1 + df)) + 1, L2 normalisation.    *)
(***************************************************************************)
WordChars == {"m", "u", "M", "a", "b", "r", "z", "B", "1", "0", "9", "5"}

Lower(c) == CASE c = "M" -> "m" [] c = "B" -> "b" [] OTHER -> c

Flush(cur) == IF Len(cur) >= 2 THEN <<cur>> ELSE <<>>

RECURSIVE Scan(_, _, _)
Scan(text, i, cur) ==
  IF i > Len(text) THEN Flush(cur)
  ELSE IF Lower(text[i]) \in WordChars
       THEN Scan(text, i + 1, Append(cur, Lower(text[i])))
       ELSE Flush(cur) \o Scan(text, i + 1, <<>>)

\* build_analyzer(): the token sequence of a text
tokenize(text) == Scan(text, 1, <<>>)

\* term frequency: the number of occurrences of term in tokens
Tf(tokens, term) == Cardinality({ i \in 1..Len(tokens) : tokens[i] = term })

\* 5 * ln(k), rounded, for k = 1, 2, ...: the logarithm in fixed point
LnTable == <<0, 3, 5, 7, 8, 9, 10, 10>>

\* smoothed inverse document frequency, in the fixed point of LnTable
Idf(n, df) == 5 + LnTable[n + 1] - LnTable[df + 1]

Vocabulary(texts) == UNION { Range(tokenize(texts[i])) : i \in 1..Len(texts) }

Df(texts, term) ==
  Cardinality({ i \in 1..Len(texts) : term \in Range(tokenize(texts[i])) })

\* fit: the frozen vocabulary and idf weights
fit(texts) ==
  LET voc == Vocabulary(texts)
  IN [vocabulary_ |-> voc,
      idf_ |-> [t \in voc |-> Idf(Len(texts), Df(texts, t))]]

\* the weight of one term of one text
Weight(vec, tokens, t) == Tf(tokens, t) * vec.idf_[t]

\* transform of one text: its weighted vector and the square of its length;
\* terms outside the vocabulary are dropped, a zero vector stays zero
transform(vec, text) ==
  LET tokens == tokenize(text)
      w == [t \in vec.vocabulary_ |-> Weight(vec, tokens, t)]
  IN [w |-> w, n2 |-> SumOver(vec.vocabulary_, [t \in vec.vocabulary_ |-> w[t] * w[t]])]

\* fit_transform raises ValueError on an empty vocabulary
EmptyVocabulary(texts) == Vocabulary(texts) = {}

\* Mutant of fit_transform: add-one smoothing of the term counts
fit_transform_smoothed(texts) ==
  LET vec == fit(texts)
      row(text) ==
        LET w == [t \in vec.vocabulary_ |-> (Tf(tokenize(text), t) + 1) * vec.idf_[t]]
        IN [w |-> w,
            n2 |-> SumOver(vec.vocabulary_, [t \in vec.vocabulary_ |-> w[t] * w[t]])]
  IN [vectorizer |-> vec, matrix |-> [i \in 1..Len(texts) |-> row(texts[i])]]

fit_transform(texts) ==
  LET vec == fit(texts)
  IN [vectorizer |-> vec,
      matrix |-> [i \in 1..Len(texts) |-> transform(vec, texts[i])]]

(***************************************************************************)
(* Scores: tfidf_matrix @ query_vector.T (search.py:38).                   *)
(***************************************************************************)
Zero == [num |-> 0, den |-> 1]
One == [num |-> 1, den |-> 1]

Dot(a, b) == SumOver(DOMAIN a.w, [t \in DOMAIN a.w |-> a.w[t] * b.w[t]])

Score(row, qv) ==
  LET d == Dot(row, qv)
      num == d * d
      den == row.n2 * qv.n2
      g == GCD(num, den)
  IN IF d = 0 THEN Zero ELSE [num |-> num \div g, den |-> den \div g]

Greater(s, t) == s.num * t.den > t.num * s.den

Positive(s) == s.num > 0

(***************************************************************************)
(* Sorting.  Python's sorted / list.sort with reverse=True is stable:      *)
(* elements with equal keys keep their original order.  np.argsort with    *)
(* the default kind ("quicksort") is not: the order it gives to equal      *)
(* keys is a property of the numpy build, fixed for a run and held in      *)
(* tieOrder (tieOrder[i] < tieOrder[j]: index i comes out before index j   *)
(* when their keys are equal).                                             *)
(***************************************************************************)
StableSortDesc(keys) ==
  CHOOSE p \in Perms(Len(keys)) :
    \A a, b \in 1..Len(keys) :
      a < b => \/ Greater(keys[p[a]], keys[p[b]])
               \/ (~Greater(keys[p[b]], keys[p[a]]) /\ p[a] < p[b])

\* Mutant of argsort_desc: the minus sign forgotten, np.argsort(scores)
argsort_asc(scores) ==
  CHOOSE p \in Perms(Len(scores)) :
    \A a, b \in 1..Len(scores) :
      a < b => \/ Greater(scores[p[b]], scores[p[a]])
               \/ (scores[p[a]] = scores[p[b]] /\ tieOrder[p[a]] < tieOrder[p[b]])

\* np.argsort(-scores): the indices by descending score
argsort_desc(scores) ==
  CHOOSE p \in Perms(Len(scores)) :
    \A a, b \in 1..Len(scores) :
      a < b => \/ Greater(scores[p[a]], scores[p[b]])
               \/ (scores[p[a]] = scores[p[b]] /\ tieOrder[p[a]] < tieOrder[p[b]])

(***************************************************************************)
(* search_solutions (search.py:29-52).  A result is a pair <<doc, score>>. *)
(***************************************************************************)
\* Mutant of query_vector: raw term counts, the idf weights not applied
query_vector_counts(vec, q) ==
  LET tokens == tokenize(q)
      w == [t \in vec.vocabulary_ |-> Tf(tokens, t)]
  IN [w |-> w, n2 |-> SumOver(vec.vocabulary_, [t \in vec.vocabulary_ |-> w[t] * w[t]])]

\* query_vector = vectorizer.transform([query])
query_vector(vec, q) == transform(vec, q)

\* scores = (tfidf_matrix @ query_vector.T).toarray().ravel()
Scores(vec, matrix, q) ==
  [i \in 1..Len(matrix) |-> Score(matrix[i], query_vector(vec, q))]

\* top_indices = np.argsort(-scores)[:top_k]
TopIndices(scores, k) == SubSeq(argsort_desc(scores), 1, Min(k, Len(scores)))

\* Mutant of NewResults: the list of the previous call is not reset
StaleResults == results

\* results = []
NewResults == <<>>

\* Mutant of Relevant: score >= 0
RelevantNonNegative(score) == score.num >= 0

\* if score > 0
Relevant(score) == Positive(score)

\* for idx in top_indices: if score > 0: results.append((docs[idx], score))
RECURSIVE Collect(_, _, _, _, _)
Collect(top_indices, scores, ds, i, acc) ==
  IF i > Len(top_indices) THEN acc
  ELSE LET idx == top_indices[i]
       IN Collect(top_indices, scores, ds, i + 1,
                  IF Relevant(scores[idx]) THEN Append(acc, <<ds[idx], scores[idx]>>)
                  ELSE acc)

\* Mutant of SortByScore: reverse=True forgotten (ascending, stable)
SortByScoreAscending(res) ==
  LET p == StableSortDesc([i \in 1..Len(res) |->
                             [num |-> res[i][2].den - res[i][2].num, den |-> res[i][2].den]])
  IN [i \in 1..Len(res) |-> res[p[i]]]

\* results.sort(key=lambda x: x[1], reverse=True)
SortByScore(res) ==
  LET p == StableSortDesc([i \in 1..Len(res) |-> res[i][2]])
  IN [i \in 1..Len(res) |-> res[p[i]]]

search_solutions(q, ds, vec, matrix, k) ==
  IF q = <<>> THEN <<>>
  ELSE LET scores == Scores(vec, matrix, q)
           top_indices == TopIndices(scores, k)
       IN SortByScore(Collect(top_indices, scores, ds, 1, NewResults))

(***************************************************************************)
(* load_data (search.py:14-27).  The file is the parsed solutions.json.    *)
(***************************************************************************)
MkFile(c) ==
  [i \in DOMAIN c |->
     IF c[i] = 0 THEN [id |-> i, solutions |-> <<i>>]
     ELSE [id |-> i, faiblesses |-> DocTexts[c[i]], solutions |-> <<i>>]]

Files ==
  { MkFile(c) : c \in UNION { [1..n -> 0..Len(DocTexts)] : n \in 0..MaxDocs } }

LacksField(f) == \E i \in 1..Len(f) : TEXT_FIELD \notin DOMAIN f[i]

\* texts = [doc[TEXT_FIELD] for doc in docs]
Texts(f) == [i \in 1..Len(f) |-> f[i][TEXT_FIELD]]

\* Mutant of LoadError: a vectorizer that accepts an empty vocabulary
LoadErrorNoVocabularyCheck(f) == IF LacksField(f) THEN "KeyError" ELSE "none"

\* The exception load_data ends with on file f, "none" when it returns
LoadError(f) ==
  IF LacksField(f) THEN "KeyError"
  ELSE IF EmptyVocabulary(Texts(f)) THEN "ValueError"
  ELSE "none"

load_data(f) ==
  /\ file' = f
  /\ nBuilds' = nBuilds + 1
  /\ error' = LoadError(f)
  /\ IF LoadError(f) = "none"
     THEN /\ docs' = f
          /\ vectorizer' = fit_transform(Texts(f)).vectorizer
          /\ tfidf_matrix' = fit_transform(Texts(f)).matrix
     ELSE UNCHANGED <<docs, vectorizer, tfidf_matrix>>

\* Mutant of Search: the corpus is reordered in place by the call
SearchReordering(q, k) ==
  /\ query' = q
  /\ top_k' = k
  /\ results' = search_solutions(q, docs, vectorizer, tfidf_matrix, k)
  /\ searched' = TRUE
  /\ repeated' = (searched /\ q = query /\ k = top_k)
  /\ docs' = [i \in 1..Len(docs) |-> docs[Len(docs) + 1 - i]]
  /\ UNCHANGED <<vectorizer, tfidf_matrix>>

\* One call of search_solutions on the loaded index
Search(q, k) ==
  /\ query' = q
  /\ top_k' = k
  /\ results' = search_solutions(q, docs, vectorizer, tfidf_matrix, k)
  /\ searched' = TRUE
  /\ repeated' = (searched /\ q = query /\ k = top_k)
  /\ UNCHANGED <<docs, vectorizer, tfidf_matrix>>

(***************************************************************************)
(* app.py: summarize_releve, the budget prompt and generate_report.        *)
(***************************************************************************)
Get(d, k, default) == IF k \in DOMAIN d THEN d[k] ELSE default

\* summarize_releve: the values the summary text is formatted from
summarize_releve(data) ==
  IF Len(data) = 0
  THEN [nodata |-> TRUE, total |-> 0, high |-> 0, top_5 |-> <<>>]
  ELSE LET p == StableSortDesc([i \in 1..Len(data) |->
                   [num |-> Get(data[i], "LAeq_segment_dB", 0), den |-> 1]])
           sorted_events == [i \in 1..Len(data) |-> data[p[i]]]
       IN [nodata |-> FALSE,
           total |-> Len(data),
           high |-> Cardinality({ i \in 1..Len(data) :
                       Get(data[i], "LAeq_rating", "None") \in {"D", "E"} }),
           top_5 |-> SubSeq(sorted_events, 1, Min(5, Len(data)))]

IsSpace(c) == c = " "

\* str.strip(): without leading and trailing white space
RECURSIVE Strip(_)
Strip(text) ==
  IF text = <<>> THEN text
  ELSE IF IsSpace(Head(text)) THEN Strip(Tail(text))
  ELSE IF IsSpace(text[Len(text)]) THEN Strip(SubSeq(text, 1, Len(text) - 1))
  ELSE text

Digits == {"0", "1", "5", "9"}

DigitVal(c) == CASE c = "0" -> 0 [] c = "1" -> 1 [] c = "5" -> 5 [] c = "9" -> 9

RECURSIVE Mantissa(_, _)
Mantissa(t, acc) ==
  IF t = <<>> THEN acc
  ELSE IF Head(t) = "." THEN Mantissa(Tail(t), acc)
  ELSE Mantissa(Tail(t), 10 * acc + DigitVal(Head(t)))

\* float(budget_input): ok = FALSE stands for ValueError; the value is
\* mantissa / 10^decimals
ParseFloat(inp) ==
  LET t == Strip(inp)
      dots == { i \in 1..Len(t) : t[i] = "." }
      ok == /\ \A i \in 1..Len(t) : t[i] \in Digits \cup {"."}
            /\ Cardinality(dots) <= 1
            /\ \E i \in 1..Len(t) : t[i] \in Digits
  IN IF ok
     THEN [ok |-> TRUE, mantissa |-> Mantissa(t, 0),
           decimals |-> IF dots = {} THEN 0 ELSE Len(t) - (CHOOSE i \in dots : TRUE)]
     ELSE [ok |-> FALSE, mantissa |-> 0, decimals |-> 0]

\* formatted_results: the (doc, score) pairs as dictionaries
FormatResults(res) == [i \in 1..Len(res) |-> [doc |-> res[i][1], score |-> res[i][2]]]

(***************************************************************************)
(* The state machine.  entry is the caller: "app" is app.main, "cli" the   *)
(* interactive loop of search.py, "lib" a caller of the two functions      *)
(* with any query and any top_k.                                           *)
(***************************************************************************)
Init ==
  /\ entry \in {"app", "cli", "lib"}
  /\ tieOrder \in Perms(MaxDocs)
  /\ pc = "start"
  /\ file = <<>>
  /\ docs = <<>>
  /\ vectorizer = [vocabulary_ |-> {}, idf_ |-> <<>>]
  /\ tfidf_matrix = <<>>
  /\ error = "none"
  /\ nBuilds = 0
  /\ query = <<>>
  /\ top_k = 0
  /\ results = <<>>
  /\ searched = FALSE
  /\ repeated = FALSE
  /\ summary = [nodata |-> TRUE, total |-> 0, high |-> 0, top_5 |-> <<>>]
  /\ analysis = <<>>
  /\ budget = [ok |-> FALSE, mantissa |-> 0, decimals |-> 0]
  /\ report = [written |-> FALSE, analysis |-> <<>>, recommended_solutions |-> <<>>]

searchVars == <<query, top_k, results, searched, repeated>>
indexVars == <<file, docs, vectorizer, tfidf_matrix, error, nBuilds>>
appVars == <<summary, analysis, budget, report>>

\* app.main, step 1: summary = summarize_releve(RELEVE_PATH)
AppSummarize ==
  /\ entry = "app" /\ pc = "start"
  /\ \E data \in Releves : summary' = summarize_releve(data)
  /\ pc' = "analyze"
  /\ UNCHANGED <<entry, tieOrder, indexVars, searchVars, analysis, budget, report>>

\* app.main, step 1: analysis = analyze_with_groq(summary), the model's reply
AppAnalyze ==
  /\ entry = "app" /\ pc = "analyze"
  /\ \E reply \in AnalysisTexts : analysis' = reply
  /\ pc' = "budget"
  /\ UNCHANGED <<entry, tieOrder, indexVars, searchVars, summary, budget, report>>

\* Mutant of AppBudget: the loop is left on an invalid line as well
AppBudgetNoRetry ==
  /\ entry = "app" /\ pc = "budget"
  /\ \E inp \in BudgetInputs : budget' = ParseFloat(inp)
  /\ pc' = "load"
  /\ UNCHANGED <<entry, tieOrder, indexVars, searchVars, summary, analysis, report>>

\* app.main, step 2: the budget prompt, repeated until float() accepts
AppBudget ==
  /\ entry = "app" /\ pc = "budget"
  /\ \E inp \in BudgetInputs :
       IF ParseFloat(inp).ok
       THEN budget' = ParseFloat(inp) /\ pc' = "load"
       ELSE UNCHANGED <<budget, pc>>
  /\ UNCHANGED <<entry, tieOrder, indexVars, searchVars, summary, analysis, report>>

\* app.main, step 3: docs, vectorizer, tfidf_matrix = load_data()
AppLoad ==
  /\ entry = "app" /\ pc = "load"
  /\ \E f \in Files : load_data(f)
  /\ pc' = IF error' = "none" THEN "search" ELSE "crashed"
  /\ UNCHANGED <<entry, tieOrder, searchVars, appVars>>

\* app.main, step 3: results = search_solutions(analysis, ..., top_k=5)
AppSearch ==
  /\ entry = "app" /\ pc = "search"
  /\ Search(analysis, 5)
  /\ pc' = "report"
  /\ UNCHANGED <<entry, tieOrder, file, error, nBuilds, appVars>>

\* app.main, step 4: generate_report(analysis, budget, formatted_results)
AppReport ==
  /\ entry = "app" /\ pc = "report"
  /\ report' = [written |-> TRUE, analysis |-> analysis,
                recommended_solutions |-> FormatResults(results)]
  /\ pc' = "done"
  /\ UNCHANGED <<entry, tieOrder, indexVars, searchVars, summary, analysis, budget>>

\* search.py __main__: docs, vectorizer, tfidf_matrix = load_data()
CliLoad ==
  /\ entry = "cli" /\ pc = "start"
  /\ \E f \in Files : load_data(f)
  /\ pc' = IF error' = "none" THEN "prompt" ELSE "crashed"
  /\ UNCHANGED <<entry, tieOrder, searchVars, appVars>>

\* search.py __main__: one turn of the loop
CliPrompt ==
  /\ entry = "cli" /\ pc = "prompt"
  /\ \E inp \in CliInputs :
       IF Strip(inp) = <<>>
       THEN pc' = "done" /\ UNCHANGED <<searchVars, docs, vectorizer, tfidf_matrix>>
       ELSE Search(Strip(inp), TOP_K) /\ pc' = "prompt"
  /\ UNCHANGED <<entry, tieOrder, file, error, nBuilds, appVars>>

\* a caller of the library: build
LibLoad ==
  /\ entry = "lib" /\ pc = "start"
  /\ \E f \in Files : load_data(f)
  /\ pc' = IF error' = "none" THEN "built" ELSE "crashed"
  /\ UNCHANGED <<entry, tieOrder, searchVars, appVars>>

\* a caller of the library: search_solutions with any query and top_k
LibSearch ==
  /\ entry = "lib" /\ pc = "built"
  /\ \E q \in QueryTexts, k \in 1..MaxTopK : Search(q, k)
  /\ UNCHANGED <<entry, pc, tieOrder, file, error, nBuilds, appVars>>

Next ==
  \/ AppSummarize
  \/ AppAnalyze
  \/ AppBudget
  \/ AppLoad
  \/ AppSearch
  \/ AppReport
  \/ CliLoad
  \/ CliPrompt
  \/ LibLoad
  \/ LibSearch

Spec == Init /\ [][Next]_vars

(***************************************************************************)
(* Vocabulary of the properties.                                           *)
(***************************************************************************)
Built == nBuilds >= 1 /\ error = "none"

ResDoc(i) == results[i][1]
ResScore(i) == results[i][2]

\* the position in the corpus of a returned document
IndexOf(doc) == CHOOSE i \in 1..Len(docs) : docs[i] = doc

\* the score of every document for the query of the last call
CurScores == Scores(vectorizer, tfidf_matrix, query)

PositiveIdx == { i \in 1..Len(docs) : Positive(CurScores[i]) }

ReturnedIdx == { IndexOf(ResDoc(r)) : r \in 1..Len(results) }

HasTie == \E i, j \in 1..Len(results) : i < j /\ ResScore(i) = ResScore(j)

NoSharedTerm(q) == Range(tokenize(q)) \cap vectorizer.vocabulary_ = {}

\* two rows with the same direction: their cosine is 1
Parallel(a, b) == Score(a, b) = One

(***************************************************************************)
(* C1 as stated: every result has at most top_k Matches, the scores are    *)
(* strictly decreasing along the result and none is zero.                  *)
(***************************************************************************)
C1_StrictlyDescending ==
  searched =>
    /\ Len(results) <= top_k
    /\ \A i, j \in 1..Len(results) : i < j => Greater(ResScore(i), ResScore(j))
    /\ \A i \in 1..Len(results) : Positive(ResScore(i))

(***************************************************************************)
(* C1 amended: every result has at most top_k Matches, the scores never    *)
(* increase along the result (equal scores may follow each other) and      *)
(* none is zero.                                                           *)
(***************************************************************************)
C1_NonIncreasing ==
  searched =>
    /\ Len(results) <= top_k
    /\ \A i, j \in 1..Len(results) : i < j => ~Greater(ResScore(j), ResScore(i))
    /\ \A i \in 1..Len(results) : Positive(ResScore(i))

C1_Witness ==
  /\ searched /\ top_k >= 2 /\ Len(results) = top_k /\ HasTie

(***************************************************************************)
(* C2: the result is the reference result (discard the zero scores, sort   *)
(* by descending score, truncate to top_k): same length, the same scores   *)
(* in the same order, every Match a document of the corpus with its own    *)
(* score, and no omitted document scores higher than a returned one.       *)
(***************************************************************************)
ReferenceScores ==
  LET all == [i \in 1..Len(docs) |-> CurScores[i]]
      pos == SelectSeq(all, LAMBDA sc : Positive(sc))
      p == StableSortDesc(pos)
      sorted == [i \in 1..Len(pos) |-> pos[p[i]]]
  IN SubSeq(sorted, 1, Min(top_k, Len(pos)))

C2_MatchesReference ==
  searched =>
    /\ Len(results) = Min(top_k, Cardinality(PositiveIdx))
    /\ [i \in 1..Len(results) |-> ResScore(i)] = ReferenceScores
    /\ \A r \in 1..Len(results) :
         /\ \E i \in 1..Len(docs) : docs[i] = ResDoc(r)
         /\ ResScore(r) = CurScores[IndexOf(ResDoc(r))]
    /\ Cardinality(ReturnedIdx) = Len(results)
    /\ \A i \in 1..Len(docs) : \A r \in 1..Len(results) :
         i \notin ReturnedIdx => ~Greater(CurScores[i], ResScore(r))

C2_Witness ==
  /\ searched /\ results # <<>>
  /\ top_k < Cardinality(PositiveIdx)
  /\ \E i \in PositiveIdx : i \notin ReturnedIdx

(***************************************************************************)
(* C3 as stated: documents with the same non-zero score are returned in    *)
(* corpus order, the smaller corpus index first.                           *)
(***************************************************************************)
C3_TiesInCorpusOrder ==
  searched =>
    \A i, j \in 1..Len(results) :
      (i < j /\ ResScore(i) = ResScore(j)) => IndexOf(ResDoc(i)) < IndexOf(ResDoc(j))

(***************************************************************************)
(* C4: a query that is empty or shares no vocabulary term with any         *)
(* document gives the empty result and no error.                           *)
(***************************************************************************)
C4_NoMatchIsEmpty ==
  (searched /\ (query = <<>> \/ NoSharedTerm(query))) =>
    /\ results = <<>>
    /\ error = "none"
    /\ pc # "crashed"

C4_Witness ==
  /\ searched /\ query # <<>> /\ tokenize(query) # <<>> /\ NoSharedTerm(query)
  /\ Len(docs) >= 2 /\ results = <<>>

(***************************************************************************)
(* C5 as stated: load_data fails with EmptyCorpusError on an empty         *)
(* document sequence and with MissingFieldError when a document lacks the  *)
(* text field, and returns no index in either case.                        *)
(***************************************************************************)
C5_SpecErrorNames ==
  nBuilds >= 1 =>
    /\ file = <<>> => error = "EmptyCorpusError"
    /\ LacksField(file) => error = "MissingFieldError"
    /\ error # "none" => (docs = <<>> /\ tfidf_matrix = <<>>)

(***************************************************************************)
(* C5 amended: load_data fails with ValueError (empty vocabulary) on an    *)
(* empty document sequence and with KeyError when a document lacks the     *)
(* text field; in both cases no index reaches the caller and no search     *)
(* is made.                                                                *)
(***************************************************************************)
C5_PythonErrors ==
  nBuilds >= 1 =>
    /\ file = <<>> => error = "ValueError"
    /\ LacksField(file) => error = "KeyError"
    /\ error # "none" =>
         /\ docs = <<>> /\ tfidf_matrix = <<>> /\ vectorizer.vocabulary_ = {}
         /\ pc = "crashed" /\ ~searched

C5_Witness ==
  /\ nBuilds = 1 /\ Len(file) >= 2 /\ LacksField(file)
  /\ error = "KeyError" /\ docs = <<>> /\ pc = "crashed"

(***************************************************************************)
(* C6 as stated: a query equal to the text of a document d whose text is   *)
(* non-empty and differs from every other document's text gives d the      *)
(* score 1 and returns d first.                                            *)
(***************************************************************************)
C6_OwnTextRanksFirst ==
  searched =>
    \A i \in 1..Len(docs) :
      (/\ docs[i].faiblesses = query
       /\ query # <<>>
       /\ \A j \in 1..Len(docs) : j # i => docs[j].faiblesses # query)
      => (results # <<>> /\ results[1] = <<docs[i], One>>)

(***************************************************************************)
(* C6 amended: a query equal to the text of a document d whose text has    *)
(* at least one token and whose vector is not parallel to the vector of    *)
(* any other document gives d the score 1 and returns d first.             *)
(***************************************************************************)
C6_OwnVectorRanksFirst ==
  searched =>
    \A i \in 1..Len(docs) :
      (/\ docs[i].faiblesses = query
       /\ tokenize(query) # <<>>
       /\ \A j \in 1..Len(docs) : j # i => ~Parallel(tfidf_matrix[i], tfidf_matrix[j]))
      => (results # <<>> /\ results[1] = <<docs[i], One>>)

C6_Witness ==
  /\ searched /\ Len(results) >= 2
  /\ \E i \in 1..Len(docs) :
       /\ docs[i].faiblesses = query
       /\ Cardinality(Range(tokenize(query))) >= 2
       /\ \A j \in 1..Len(docs) : j # i => ~Parallel(tfidf_matrix[i], tfidf_matrix[j])
       /\ results[1] = <<docs[i], One>>

C8_IndexUnchanged ==
  Built =>
    /\ docs = file
    /\ vectorizer = fit_transform(Texts(file)).vectorizer
    /\ tfidf_matrix = fit_transform(Texts(file)).matrix

C8_Witness ==
  /\ Built /\ repeated /\ Len(docs) >= 2 /\ results # <<>>

(***************************************************************************)
(* C9: in app.main and in the loop of search.py the index is built once,   *)
(* before the first search, and every search uses it; in app.main the      *)
(* search comes after a valid budget and the report after the search.      *)
(***************************************************************************)
C9_BuildOnceBeforeSearch ==
  entry \in {"app", "cli"} =>
    /\ nBuilds <= 1
    /\ searched => (nBuilds = 1 /\ error = "none" /\ docs = file /\ docs # <<>>)
    /\ pc = "done" => nBuilds = 1
    /\ (entry = "app" /\ nBuilds >= 1) => budget.ok
    /\ report.written =>
         /\ searched /\ pc = "done"
         /\ report.recommended_solutions = FormatResults(results)

C9_Witness ==
  /\ entry = "app" /\ pc = "done" /\ report.written
  /\ budget.ok /\ nBuilds = 1 /\ results # <<>>

(***************************************************************************)
(* C10: a document with an empty text field has the zero vector, scores    *)
(* zero for every query and is in no result.                               *)
(***************************************************************************)
C10_EmptyTextNeverMatches ==
  Built =>
    \A i \in 1..Len(docs) :
      docs[i].faiblesses = <<>> =>
        /\ tfidf_matrix[i].n2 = 0
        /\ \A t \in vectorizer.vocabulary_ : tfidf_matrix[i].w[t] = 0
        /\ \A q \in QueryTexts : Scores(vectorizer, tfidf_matrix, q)[i] = Zero
        /\ \A r \in 1..Len(results) : ResDoc(r) # docs[i]

C10_Witness ==
  /\ searched /\ results # <<>>
  /\ \E i \in 1..Len(docs) : docs[i].faiblesses = <<>>

====
